---- MODULE Spec2Model ----
(***************************************************************************)
(* A model of the exchange-rates-api client: the ExchangeRates request     *)
(* builder (configuration calls, _validate, _buildUrl), the query string   *)
(* builder, the date helpers of utils, and the fetch()/avg() promise       *)
(* chains around the transport call.                                       *)
(*                                                                         *)
(* JavaScript values are tagged records: a string is the sequence of its   *)
(* characters, so that toUpperCase, encodeURIComponent, endsWith and the   *)
(* date parser and formatter are computed character by character.          *)
(***************************************************************************)
EXTENDS Integers, Sequences, FiniteSets, TLC

VARIABLES
    _api_base_url,  \* this._api_base_url : characters
    _base,          \* this._base         : Null or a string
    _symbols,       \* this._symbols      : Null or an array of strings
    _from,          \* this._from         : the string 'latest' or whatever at()/from() got
    _to,            \* this._to           : Null or whatever to() got
    last,           \* the last call on the instance and how it ended
    pending         \* the promise chains that wait for the transport to answer

vars == <<_api_base_url, _base, _symbols, _from, _to, last, pending>>
config == <<_api_base_url, _base, _symbols, _from, _to>>

-----------------------------------------------------------------------------
(* Bounds of the model *)

\* promise chains that wait for the transport at the same time
MaxPending == 1

-----------------------------------------------------------------------------
(* JavaScript numbers: IEEE 754 doubles *)

\* A natural number of any size is the sequence of its digits in base 2^12,
\* lowest first, without leading zeros.
LimbBase == 2^12

RECURSIVE BNat(_)
BNat(i) == IF i = 0 THEN <<>> ELSE <<i % LimbBase>> \o BNat(i \div LimbBase)

RECURSIVE BInt(_)
BInt(a) == IF a = <<>> THEN 0 ELSE a[1] + LimbBase * BInt(Tail(a))

RECURSIVE BTrim(_)
BTrim(a) ==
    IF a # <<>> /\ a[Len(a)] = 0 THEN BTrim(SubSeq(a, 1, Len(a) - 1)) ELSE a

RECURSIVE BAddC(_, _, _)
BAddC(a, b, carry) ==
    IF a = <<>> /\ b = <<>> THEN BNat(carry)
    ELSE LET x == (IF a = <<>> THEN 0 ELSE a[1]) + (IF b = <<>> THEN 0 ELSE b[1]) + carry
         IN  <<x % LimbBase>> \o BAddC((IF a = <<>> THEN <<>> ELSE Tail(a)),
                                       (IF b = <<>> THEN <<>> ELSE Tail(b)),
                                       x \div LimbBase)

BAdd(a, b) == BAddC(a, b, 0)

RECURSIVE BSubC(_, _, _)
BSubC(a, b, borrow) ==
    IF a = <<>> THEN <<>>
    ELSE LET x == a[1] - (IF b = <<>> THEN 0 ELSE b[1]) - borrow
         IN  <<(x + LimbBase) % LimbBase>>
             \o BSubC(Tail(a), (IF b = <<>> THEN <<>> ELSE Tail(b)), (IF x < 0 THEN 1 ELSE 0))

\* a - b for a >= b
BSub(a, b) == BTrim(BSubC(a, b, 0))

RECURSIVE BCmpTop(_, _)
BCmpTop(a, b) ==
    IF a = <<>> THEN 0
    ELSE IF a[Len(a)] < b[Len(b)] THEN -1
    ELSE IF a[Len(a)] > b[Len(b)] THEN 1
    ELSE BCmpTop(SubSeq(a, 1, Len(a) - 1), SubSeq(b, 1, Len(b) - 1))

\* -1, 0 or 1 as a < b, a = b or a > b
BCmp(a, b) ==
    IF Len(a) < Len(b) THEN -1 ELSE IF Len(a) > Len(b) THEN 1 ELSE BCmpTop(a, b)

RECURSIVE BMulC(_, _, _)
BMulC(a, c, carry) ==
    IF a = <<>> THEN BNat(carry)
    ELSE LET x == (a[1] * c) + carry
         IN  <<x % LimbBase>> \o BMulC(Tail(a), c, x \div LimbBase)

\* a * c for an integer 0 <= c < 2^18
BMulSmall(a, c) == BTrim(BMulC(a, c, 0))

RECURSIVE BDivSmall(_, _)
\* quotient and remainder of a by an integer 0 < d < 2^18
BDivSmall(a, d) ==
    IF a = <<>> THEN [q |-> <<>>, r |-> 0]
    ELSE LET hi == BDivSmall(Tail(a), d)
             x == (hi.r * LimbBase) + a[1]
         IN  [q |-> BTrim(<<x \div d>> \o hi.q), r |-> x % d]

RECURSIVE BMul(_, _)
BMul(a, b) ==
    IF b = <<>> THEN <<>>
    ELSE BTrim(BAdd(BMulSmall(a, b[1]), <<0>> \o BMul(a, Tail(b))))

\* a * 2^bits and the whole part of a / 2^bits
BShl(a, bits) ==
    IF a = <<>> THEN <<>>
    ELSE [i \in 1..(bits \div 12) |-> 0] \o BMulSmall(a, 2^(bits % 12))
BShr(a, bits) ==
    IF bits \div 12 >= Len(a) THEN <<>>
    ELSE BDivSmall(SubSeq(a, (bits \div 12) + 1, Len(a)), 2^(bits % 12)).q

RECURSIVE BitLength(_)
BitLength(x) == IF x = 0 THEN 0 ELSE 1 + BitLength(x \div 2)

BBitLen(a) == IF a = <<>> THEN 0 ELSE (12 * (Len(a) - 1)) + BitLength(a[Len(a)])
BOdd(a) == a # <<>> /\ (a[1] % 2) = 1

\* A number is s * n / 2^k: a sign s, a natural number n and k >= 0, with n
\* odd when k > 0. Every finite double is such a number.
Dyadic(s, n, k) == [t |-> "number", s |-> (IF n = <<>> THEN 1 ELSE s), n |-> n, k |-> k]

NaN == [t |-> "number", nan |-> TRUE]

RECURSIVE Lowest(_, _, _)
Lowest(s, n, k) ==
    IF k > 0 /\ n # <<>> /\ ~BOdd(n) THEN Lowest(s, BShr(n, 1), k - 1)
    ELSE Dyadic(s, n, (IF n = <<>> THEN 0 ELSE k))

\* The double nearest to s * (p / c) * 2^x, ties to the even mantissa of 53
\* bits, for an integer 0 < c < 2^18 (exponent range left aside).
RoundToDouble(s, p, c, x) ==
    IF p = <<>> THEN Dyadic(1, <<>>, 0)
    ELSE LET shift == IF BBitLen(p) < 72 THEN 72 - BBitLen(p) ELSE 0
             qr == BDivSmall(BShl(p, shift), c)
             drop == BBitLen(qr.q) - 53
             half == BShr(qr.q, drop - 1)
             below == qr.r > 0 \/ BShl(half, drop - 1) # qr.q
             down == BShr(half, 1)
             m == IF BOdd(half) /\ (below \/ BOdd(down)) THEN BAdd(down, <<1>>) ELSE down
             e == (x - shift) + drop
         IN  IF e >= 0 THEN Dyadic(s, BShl(m, e), 0) ELSE Lowest(s, m, -e)

Abs(n) == IF n < 0 THEN -n ELSE n
Sign(n) == IF n < 0 THEN -1 ELSE 1

\* the integer n
Num(n) == Dyadic(Sign(n), BNat(Abs(n)), 0)

\* the number a decimal literal n / d denotes (d a power of ten)
Frac(n, d) == RoundToDouble(Sign(n), BNat(Abs(n)), d, 0)

\* the integer a number is, for a whole number below 2^31
ToInt(a) == a.s * BInt(a.n)

IsInteger(v) == v.t = "number" /\ v # NaN /\ v.k = 0

\* -1, 0 or 1 as a < b, a = b or a > b, for numbers that are not NaN
Compare(a, b) ==
    IF a.s # b.s THEN (IF a.s < b.s THEN -1 ELSE 1)
    ELSE a.s * BCmp(BShl(a.n, b.k), BShl(b.n, a.k))

\* a < b and a > b on JavaScript numbers: false when either side is NaN
Less(a, b) == a # NaN /\ b # NaN /\ Compare(a, b) < 0
Greater(a, b) == a # NaN /\ b # NaN /\ Compare(a, b) > 0

\* a + b
Plus(a, b) ==
    LET k == IF a.k > b.k THEN a.k ELSE b.k
        x == BShl(a.n, k - a.k)
        y == BShl(b.n, k - b.k)
    IN  IF a.s = b.s THEN RoundToDouble(a.s, BAdd(x, y), 1, -k)
        ELSE IF BCmp(x, y) >= 0 THEN RoundToDouble(a.s, BSub(x, y), 1, -k)
        ELSE RoundToDouble(b.s, BSub(y, x), 1, -k)

\* a / k for an integer k > 0, and a * b
DividedBy(a, k) == RoundToDouble(a.s, a.n, k, -a.k)
Times(a, b) == RoundToDouble(a.s * b.s, BMul(a.n, b.n), 1, -(a.k + b.k))

RECURSIVE Pow10(_)
Pow10(k) == IF k = 0 THEN 1 ELSE 10 * Pow10(k - 1)

\* x.toFixed(k) as the integer n of the text n / 10^k: the n for which
\* n / 10^k is nearest to x, the larger in magnitude of two
toFixedDigits(x, k) ==
    BShr(BAdd(BShl(BMulSmall(x.n, Pow10(k)), 1), BShl(<<1>>, x.k)), x.k + 1)

\* +x.toFixed(k) with a toFixed that cuts the digits off
toFixed_cut(x, k) ==
    RoundToDouble(x.s, BShr(BMulSmall(x.n, Pow10(k)), x.k), Pow10(k), 0)

\* +x.toFixed(k): the number the text of toFixed denotes
toFixed(x, k) == RoundToDouble(x.s, toFixedDigits(x, k), Pow10(k), 0)

-----------------------------------------------------------------------------
(* JavaScript values *)

Null == [t |-> "null"]
Undefined == [t |-> "undefined"]
Str(cs) == [t |-> "string", s |-> cs]
Arr(es) == [t |-> "array", es |-> es]
\* a Date object: a local calendar day and an hour of that day, or Invalid Date
DateObj(y, m, d, h) == [t |-> "Date", valid |-> TRUE, y |-> y, m |-> m, d |-> d, h |-> h]
InvalidDateObj == [t |-> "Date", valid |-> FALSE, y |-> 0, m |-> 0, d |-> 0, h |-> 0]

IsString(v) == v.t = "string"
IsArray(v) == v.t = "array"

RECURSIVE Text(_)
\* the characters cs as one string
Text(cs) == IF cs = <<>> THEN "" ELSE Head(cs) \o Text(Tail(cs))

RECURSIVE Concat(_)
\* the concatenation of a sequence of character sequences
Concat(parts) == IF parts = <<>> THEN <<>> ELSE Head(parts) \o Concat(Tail(parts))

LowerCase == <<"a","b","c","d","e","f","g","h","i","j","k","l","m",
               "n","o","p","q","r","s","t","u","v","w","x","y","z">>
UpperCase == <<"A","B","C","D","E","F","G","H","I","J","K","L","M",
               "N","O","P","Q","R","S","T","U","V","W","X","Y","Z">>
Digits == <<"0","1","2","3","4","5","6","7","8","9">>

Range(f) == {f[i] : i \in DOMAIN f}

\* String.prototype.toUpperCase, on characters
toUpperCase(cs) ==
    [i \in DOMAIN cs |->
        IF \E k \in DOMAIN LowerCase : LowerCase[k] = cs[i]
        THEN UpperCase[CHOOSE k \in DOMAIN LowerCase : LowerCase[k] = cs[i]]
        ELSE cs[i]]

\* the characters encodeURIComponent leaves alone
Unreserved == Range(LowerCase) \cup Range(UpperCase) \cup Range(Digits)
              \cup {"-", "_", ".", "!", "~", "*", "'", "(", ")"}

\* the percent escape of one reserved character
Escape(c) ==
    CASE c = " " -> <<"%","2","0">>
      [] c = "," -> <<"%","2","C">>
      [] c = "/" -> <<"%","2","F">>
      [] c = ":" -> <<"%","3","A">>
      [] c = "=" -> <<"%","3","D">>
      [] c = "?" -> <<"%","3","F">>
      [] c = "&" -> <<"%","2","6">>

encodeURIComponent(cs) ==
    Concat([i \in DOMAIN cs |-> IF cs[i] \in Unreserved THEN <<cs[i]>> ELSE Escape(cs[i])])

-----------------------------------------------------------------------------
(* Errors *)

NoError == [name |-> "none", message |-> ""]
ExchangeRatesError(message) == [name |-> "ExchangeRatesError", message |-> message]
TypeError(message) == [name |-> "TypeError", message |-> message]

\* the messages of the errors _validate throws
InvalidRangeRequest ==
    ExchangeRatesError("Cannot set the 'from' date to 'latest' when fetching a date range")
InvalidDateOrder == ExchangeRatesError("The 'from' date cannot be after the 'to' date")
DateOutOfRange == ExchangeRatesError("Cannot get historical rates before 1999")

-----------------------------------------------------------------------------
(* Dates: date-fns 1.30 as utils and _validate call it *)

IsDigit(c) == c \in Range(Digits)
DigitVal(c) == (CHOOSE k \in DOMAIN Digits : Digits[k] = c) - 1

DaysInMonth(y, m) ==
    IF m = 2 THEN (IF (y % 4) = 0 /\ ((y % 100) # 0 \/ (y % 400) = 0) THEN 29 ELSE 28)
    ELSE IF m \in {4, 6, 9, 11} THEN 30 ELSE 31

\* the characters are a complete ISO 8601 calendar date YYYY-MM-DD
IsIsoDay(cs) ==
    /\ Len(cs) = 10
    /\ cs[5] = "-" /\ cs[8] = "-"
    /\ \A i \in {1, 2, 3, 4, 6, 7, 9, 10} : IsDigit(cs[i])
    /\ LET y == 1000 * DigitVal(cs[1]) + 100 * DigitVal(cs[2])
                + 10 * DigitVal(cs[3]) + DigitVal(cs[4])
           m == 10 * DigitVal(cs[6]) + DigitVal(cs[7])
           d == 10 * DigitVal(cs[9]) + DigitVal(cs[10])
       IN  m \in 1..12 /\ d \in 1..DaysInMonth(y, m)

\* date-fns parse: a Date is cloned, a string is read as ISO 8601 (local
\* midnight) or handed to the Date constructor, which makes Invalid Date of
\* the other strings of this model; null goes to new Date(null), the epoch.
parse(v) ==
    CASE v.t = "Date" -> v
      [] v.t = "null" -> DateObj(1970, 1, 1, 0)
      [] v.t = "undefined" -> InvalidDateObj
      [] v.t = "string" ->
            IF IsIsoDay(v.s)
            THEN DateObj(1000 * DigitVal(v.s[1]) + 100 * DigitVal(v.s[2])
                           + 10 * DigitVal(v.s[3]) + DigitVal(v.s[4]),
                         10 * DigitVal(v.s[6]) + DigitVal(v.s[7]),
                         10 * DigitVal(v.s[9]) + DigitVal(v.s[10]), 0)
            ELSE InvalidDateObj

\* date-fns isValid throws a TypeError when its argument is no Date object
isValidThrows(v) == v.t # "Date"
isValid(v) == v.valid

\* Date.prototype.getTime, in hours on a scale that keeps the order of dates
getTime(d) ==
    IF d.valid THEN Num((((d.y * 12 + d.m) * 31) + d.d) * 24 + d.h) ELSE NaN

getYear(v) == LET d == parse(v) IN IF d.valid THEN Num(d.y) ELSE NaN
\* isAfter that also holds of equal instants
isAfter_orEqual(a, b) == ~Less(getTime(parse(a)), getTime(parse(b)))
isAfter(a, b) == Greater(getTime(parse(a)), getTime(parse(b)))

Pad2(n) == <<Digits[((n \div 10) % 10) + 1], Digits[(n % 10) + 1]>>
Pad4(n) == <<Digits[((n \div 1000) % 10) + 1], Digits[((n \div 100) % 10) + 1]>> \o Pad2(n)

\* date-fns format(date, 'YYYY-MM-DD')
format(v) ==
    LET d == parse(v)
    IN  IF ~isValid(d)
        THEN <<"I","n","v","a","l","i","d"," ","D","a","t","e">>
        ELSE Pad4(d.y) \o <<"-">> \o Pad2(d.m) \o <<"-">> \o Pad2(d.d)

-----------------------------------------------------------------------------
(* utils *)

\* utils.parseDate: [thrown, value]. isValid is called for its exception
\* only, its result is dropped, and the argument itself is returned.
parseDate(date) ==
    LET parsedDate == parse(date)
    IN  IF isValidThrows(parsedDate)
        THEN [thrown |-> ExchangeRatesError(Text(format(parsedDate)) \o " is not a valid date"),
              value |-> Undefined]
        ELSE [thrown |-> NoError, value |-> date]

formatDate(date) == format(date)

untrailingSlashIt(str) ==
    IF Len(str) > 0 /\ str[Len(str)] = "/" THEN SubSeq(str, 1, Len(str) - 1) ELSE str

-----------------------------------------------------------------------------
(* QueryStringBuilder: _obj is the list of its (key, value) properties in  *)
(* insertion order, which is the order Object.keys gives string keys.      *)

RECURSIVE JoinWith(_, _)
\* Array.prototype.join
JoinWith(parts, sep) ==
    IF parts = <<>> THEN <<>>
    ELSE IF Len(parts) = 1 THEN parts[1]
    ELSE parts[1] \o sep \o JoinWith(Tail(parts), sep)

addParam(obj, key, val, encode) ==
    LET paramKey == IF encode THEN encodeURIComponent(key) ELSE key
        paramVal == IF encode THEN encodeURIComponent(val) ELSE val
    IN  IF \E i \in DOMAIN obj : obj[i][1] = paramKey
        THEN [i \in DOMAIN obj |-> IF obj[i][1] = paramKey THEN <<paramKey, paramVal>> ELSE obj[i]]
        ELSE Append(obj, <<paramKey, paramVal>>)

\* _build that puts the '?' before an empty query string too
_build_alwaysMark(obj) ==
    <<"?">> \o JoinWith([i \in DOMAIN obj |-> obj[i][1] \o <<"=">> \o obj[i][2]], <<"&">>)

_build(obj) ==
    LET qs == JoinWith([i \in DOMAIN obj |-> obj[i][1] \o <<"=">> \o obj[i][2]], <<"&">>)
    IN  IF Len(qs) = 0 THEN <<>> ELSE <<"?">> \o qs

-----------------------------------------------------------------------------
(* ExchangeRates: `this` is the record of the instance's fields *)

\* require('./currencies'): the keys of the catalog object
currenciesList == {<<"U","S","D">>, <<"E","U","R">>, <<"G","B","P">>}

API_BASE_URL == <<"h","t","t","p","s",":","/","/","a","p","i",".",
                  "r","a","t","e","s","a","p","i",".","i","o">>
LATEST == Str(<<"l","a","t","e","s","t">>)
MinYear == 1999

\* the value of `new ExchangeRates()`
NewInstance ==
    [_api_base_url |-> API_BASE_URL, _base |-> Null, _symbols |-> Null,
     _from |-> LATEST, _to |-> Null]

\* JavaScript truthiness of the values a field can hold
Truthy(v) ==
    CASE v.t \in {"null", "undefined"} -> FALSE
      [] v.t = "string" -> Len(v.s) > 0
      [] v.t = "number" -> v # NaN /\ v.n # <<>>
      [] OTHER -> TRUE

\* _validateCurrency: the error it throws, NoError when it returns
_validateCurrency(currency) ==
    IF currency \notin currenciesList
    THEN ExchangeRatesError(Text(currency) \o " is not a valid currency")
    ELSE NoError

_isHistoryRequest(this) == this._to # Null

\* _validate without the check of 'latest' as the start of a range
_validate_noLatestCheck(this) ==
    IF _isHistoryRequest(this) /\ isAfter(this._from, this._to) THEN InvalidDateOrder
    ELSE IF this._from # LATEST /\ Less(getYear(this._from), Num(MinYear)) THEN DateOutOfRange
    ELSE NoError

\* _validate with the year checked before the order of the dates
_validate_yearFirst(this) ==
    IF _isHistoryRequest(this) /\ this._from = LATEST THEN InvalidRangeRequest
    ELSE IF this._from # LATEST /\ Less(getYear(this._from), Num(MinYear)) THEN DateOutOfRange
    ELSE IF _isHistoryRequest(this) /\ isAfter(this._from, this._to) THEN InvalidDateOrder
    ELSE NoError

\* _validate: the error it throws, NoError when it returns
_validate(this) ==
    IF _isHistoryRequest(this) /\ this._from = LATEST THEN InvalidRangeRequest
    ELSE IF _isHistoryRequest(this) /\ isAfter(this._from, this._to) THEN InvalidDateOrder
    ELSE IF this._from # LATEST /\ Less(getYear(this._from), Num(MinYear)) THEN DateOutOfRange
    ELSE NoError

\* the QueryStringBuilder of _buildUrl after its addParam calls
_buildUrlParams(this) ==
    LET qs0 == <<>>
        qs1 == IF _isHistoryRequest(this)
               THEN addParam(addParam(qs0, <<"s","t","a","r","t","_","a","t">>,
                                      formatDate(this._from), TRUE),
                             <<"e","n","d","_","a","t">>, formatDate(this._to), TRUE)
               ELSE qs0
        qs2 == IF Truthy(this._base)
               THEN addParam(qs1, <<"b","a","s","e">>, this._base.s, TRUE)
               ELSE qs1
    IN  IF Truthy(this._symbols)
        THEN addParam(qs2, <<"s","y","m","b","o","l","s">>,
                      JoinWith([i \in DOMAIN this._symbols.es |-> this._symbols.es[i].s],
                               <<",">>), FALSE)
        ELSE qs2

\* the endpoint _buildUrl appends to the base url
_buildUrlEndpoint(this) ==
    IF _isHistoryRequest(this) THEN <<"h","i","s","t","o","r","y">>
    ELSE IF this._from = LATEST THEN LATEST.s
    ELSE formatDate(this._from)

_buildUrl(this) ==
    this._api_base_url \o <<"/">> \o _buildUrlEndpoint(this) \o _build(_buildUrlParams(this))

\* Each configuration method gives [thrown, this]: the error it throws and the
\* fields of the instance when it is left.

setApiBaseUrl(this, url) ==
    [thrown |-> NoError, this |-> [this EXCEPT !._api_base_url = untrailingSlashIt(url)]]

at(this, date) ==
    LET r == parseDate(date)
    IN  IF r.thrown # NoError THEN [thrown |-> r.thrown, this |-> this]
        ELSE [thrown |-> NoError, this |-> [this EXCEPT !._from = r.value]]

\* variant: latest() that also drops the end of the range
latest_clearsTo(this) ==
    [thrown |-> NoError, this |-> [this EXCEPT !._from = LATEST, !._to = Null]]

latest(this) == [thrown |-> NoError, this |-> [this EXCEPT !._from = LATEST]]

from(this, date) ==
    LET r == parseDate(date)
    IN  IF r.thrown # NoError THEN [thrown |-> r.thrown, this |-> this]
        ELSE [thrown |-> NoError, this |-> [this EXCEPT !._from = r.value]]

to(this, date) ==
    LET r == parseDate(date)
    IN  IF r.thrown # NoError THEN [thrown |-> r.thrown, this |-> this]
        ELSE [thrown |-> NoError, this |-> [this EXCEPT !._to = r.value]]

\* base() that stores the code before it validates it
base_storesFirst(this, currency) ==
    IF ~IsString(currency)
    THEN [thrown |-> TypeError("Base currency has to be a string"), this |-> this]
    ELSE [thrown |-> _validateCurrency(toUpperCase(currency.s)),
          this |-> [this EXCEPT !._base = Str(toUpperCase(currency.s))]]

base(this, currency) ==
    IF ~IsString(currency)
    THEN [thrown |-> TypeError("Base currency has to be a string"), this |-> this]
    ELSE LET currencyUpper == toUpperCase(currency.s)
         IN  IF _validateCurrency(currencyUpper) # NoError
             THEN [thrown |-> _validateCurrency(currencyUpper), this |-> this]
             ELSE [thrown |-> NoError, this |-> [this EXCEPT !._base = Str(currencyUpper)]]

\* what one turn of the loop of symbols() throws on element c
symbolsElementThrown(c) ==
    IF ~IsString(c) THEN TypeError("Symbol currencies have to be strings")
    ELSE _validateCurrency(toUpperCase(c.s))

symbols(this, currencies) ==
    LET currenciesArray == IF IsArray(currencies) THEN currencies.es ELSE <<currencies>>
        bad == {i \in DOMAIN currenciesArray : symbolsElementThrown(currenciesArray[i]) # NoError}
    IN  IF bad # {}
        THEN [thrown |-> symbolsElementThrown(
                            currenciesArray[CHOOSE i \in bad : \A j \in bad : i <= j]),
              this |-> this]
        ELSE [thrown |-> NoError,
              this |-> [this EXCEPT !._symbols =
                          Arr([i \in DOMAIN currenciesArray |->
                                  Str(toUpperCase(currenciesArray[i].s))])]]

\* get url: [thrown, value]
url(this) ==
    IF _validate(this) # NoError
    THEN [thrown |-> _validate(this), value |-> Undefined]
    ELSE [thrown |-> NoError, value |-> Str(_buildUrl(this))]

-----------------------------------------------------------------------------
(* Objects of the response *)

\* an object: its own enumerable properties <<key, value>> in Object.keys order
Obj(ps) == [t |-> "object", ps |-> ps]

ObjectKeys(v) == IF v.t = "object" THEN [i \in DOMAIN v.ps |-> v.ps[i][1]] ELSE <<>>
ObjectValues(v) == IF v.t = "object" THEN [i \in DOMAIN v.ps |-> v.ps[i][2]] ELSE <<>>
HasProp(v, k) == v.t = "object" /\ \E i \in DOMAIN v.ps : v.ps[i][1] = k
GetProp(v, k) ==
    IF HasProp(v, k) THEN v.ps[CHOOSE i \in DOMAIN v.ps : v.ps[i][1] = k][2] ELSE Undefined

\* Object.keys and Object.values throw a TypeError on null and undefined
ObjectKeysThrows(v) == v.t \in {"null", "undefined"}

-----------------------------------------------------------------------------
(* fetch() and avg() *)

\* A transport answer: the promise of fetch(url) rejects, or resolves with a
\* response of some status whose body is JSON text (json, data) or is not.
Rejected(message) == [kind |-> "rejected", message |-> message, status |-> 0,
                      json |-> FALSE, data |-> Undefined]
Response(status, data) == [kind |-> "response", message |-> "", status |-> status,
                           json |-> TRUE, data |-> data]
Malformed(status) == [kind |-> "response", message |-> "", status |-> status,
                      json |-> FALSE, data |-> Undefined]

\* fetch() without the validation
fetchCall_unvalidated(this) ==
    [thrown |-> NoError, url |-> Str(_buildUrl(this))]

\* fetch(), up to the transport call: [thrown, url]
fetchCall(this) ==
    IF _validate(this) # NoError
    THEN [thrown |-> _validate(this), url |-> Undefined]
    ELSE [thrown |-> NoError, url |-> Str(_buildUrl(this))]

\* the first .then of fetch() with the body decoded before the status is looked at
fetchThenResponse_bodyFirst(response) ==
    IF ~response.json
    THEN [thrown |-> [name |-> "SyntaxError", message |-> "Unexpected token < in JSON at position 0"],
          value |-> Undefined]
    ELSE IF response.status # 200
    THEN [thrown |-> ExchangeRatesError("API returned a bad response (HTTP "
                                        \o ToString(response.status) \o ")"),
          value |-> Undefined]
    ELSE [thrown |-> NoError, value |-> response.data]

\* the first .then of fetch(): [thrown, value]
fetchThenResponse(response) ==
    IF response.status # 200
    THEN [thrown |-> ExchangeRatesError("API returned a bad response (HTTP "
                                        \o ToString(response.status) \o ")"),
          value |-> Undefined]
    ELSE IF ~response.json
    THEN [thrown |-> [name |-> "SyntaxError", message |-> "Unexpected token < in JSON at position 0"],
          value |-> Undefined]
    ELSE [thrown |-> NoError, value |-> response.data]

\* (keys.length === 1) ? rates[keys[0]] : rates, for rates that have keys
collapse(rates) ==
    IF Len(ObjectKeys(rates)) = 1 THEN GetProp(rates, ObjectKeys(rates)[1]) ELSE rates

\* the second .then of fetch() without the collapse of a single rate
fetchThenData_noCollapse(data) ==
    IF data.t \in {"null", "undefined"} \/ ObjectKeysThrows(GetProp(data, "rates"))
    THEN [thrown |-> TypeError("Cannot convert undefined or null to object"),
          value |-> Undefined]
    ELSE [thrown |-> NoError, value |-> GetProp(data, "rates")]

\* the second .then of fetch(): [thrown, value]
fetchThenData(data) ==
    IF data.t \in {"null", "undefined"}
    THEN [thrown |-> TypeError("Cannot read property 'rates' of " \o data.t), value |-> Undefined]
    ELSE LET rates == GetProp(data, "rates")
         IN  IF ObjectKeysThrows(rates)
             THEN [thrown |-> TypeError("Cannot convert undefined or null to object"),
                   value |-> Undefined]
             ELSE [thrown |-> NoError, value |-> collapse(rates)]

\* the .catch of fetch()
fetchCatch(err) ==
    ExchangeRatesError("Couldn't fetch the exchange rate, " \o err.message)

\* how the promise fetch() returned settles on a transport answer: [thrown, value]
fetchSettle(answer) ==
    LET first == IF answer.kind = "rejected"
                 THEN [thrown |-> TypeError(answer.message), value |-> Undefined]
                 ELSE fetchThenResponse(answer)
        second == IF first.thrown # NoError THEN first ELSE fetchThenData(first.value)
    IN  IF second.thrown # NoError
        THEN [thrown |-> fetchCatch(second.thrown), value |-> Undefined]
        ELSE second

\* what avg() throws before it calls fetch()
avgArgumentThrown(decimalPlaces) ==
    IF decimalPlaces # Null
       /\ ~IsInteger(decimalPlaces)
    THEN ExchangeRatesError("The decimal places parameter has to be an integer")
    ELSE IF decimalPlaces # Null /\ Less(decimalPlaces, Num(0))
    THEN ExchangeRatesError("Decimal places cannot be negative")
    ELSE NoError

\* avg() with the configuration validated before the argument is looked at
avgCall_validateFirst(this, decimalPlaces) ==
    IF _validate(this) # NoError
    THEN [thrown |-> _validate(this), url |-> Undefined]
    ELSE IF avgArgumentThrown(decimalPlaces) # NoError
    THEN [thrown |-> avgArgumentThrown(decimalPlaces), url |-> Undefined]
    ELSE fetchCall(this)

\* avg(), up to the transport call: [thrown, url]
avgCall(this, decimalPlaces) ==
    IF avgArgumentThrown(decimalPlaces) # NoError
    THEN [thrown |-> avgArgumentThrown(decimalPlaces), url |-> Undefined]
    ELSE fetchCall(this)

RECURSIVE mergeInto(_, _)
\* mergedObj after the pushes of the properties ps, in order
mergeInto(mergedObj, ps) ==
    IF ps = <<>> THEN mergedObj
    ELSE LET key == ps[1][1]
             val == ps[1][2]
             next == IF \E i \in DOMAIN mergedObj : mergedObj[i][1] = key
                     THEN [i \in DOMAIN mergedObj |->
                             IF mergedObj[i][1] = key
                             THEN <<key, Append(mergedObj[i][2], val)>>
                             ELSE mergedObj[i]]
                     ELSE Append(mergedObj, <<key, <<val>>>>)
         IN  mergeInto(next, Tail(ps))

RECURSIVE reduceSum(_)
\* array.reduce((p, c) => p + c, 0)
reduceSum(array) ==
    IF array = <<>> THEN Num(0)
    ELSE Plus(reduceSum(SubSeq(array, 1, Len(array) - 1)), array[Len(array)])

\* the own properties Object.keys(v) lists, with their values
ObjectProps(v) == IF v.t = "object" THEN v.ps ELSE <<>>

\* the .then of avg() without the early return of a request that is no range
avgThen_always(this, rates, decimalPlaces) ==
    LET objs == ObjectValues(rates)
        mergedObj == mergeInto(<<>>, Concat([i \in DOMAIN objs |-> ObjectProps(objs[i])]))
        avgRates == [i \in DOMAIN mergedObj |->
                       LET avgRate == DividedBy(reduceSum(mergedObj[i][2]), Len(mergedObj[i][2]))
                       IN  <<mergedObj[i][1],
                             IF decimalPlaces = Null THEN avgRate
                             ELSE toFixed(avgRate, ToInt(decimalPlaces))>>]
    IN  IF ObjectKeysThrows(rates) \/ \E i \in DOMAIN objs : ObjectKeysThrows(objs[i])
        THEN [thrown |-> TypeError("Cannot convert undefined or null to object"),
              value |-> Undefined]
        ELSE [thrown |-> NoError,
              value |-> IF Len(mergedObj) = 1 THEN avgRates[1][2] ELSE Obj(avgRates)]

\* the .then of avg() with every sum divided by the number of dates
avgThen_perDate(this, rates, decimalPlaces) ==
    IF ~_isHistoryRequest(this) THEN [thrown |-> NoError, value |-> rates]
    ELSE LET objs == ObjectValues(rates)
             mergedObj == mergeInto(<<>>, Concat([i \in DOMAIN objs |-> ObjectProps(objs[i])]))
             avgRates == [i \in DOMAIN mergedObj |->
                            LET avgRate == DividedBy(reduceSum(mergedObj[i][2]), Len(objs))
                            IN  <<mergedObj[i][1],
                                  IF decimalPlaces = Null THEN avgRate
                                  ELSE toFixed(avgRate, ToInt(decimalPlaces))>>]
         IN  IF ObjectKeysThrows(rates) \/ \E i \in DOMAIN objs : ObjectKeysThrows(objs[i])
             THEN [thrown |-> TypeError("Cannot convert undefined or null to object"),
                   value |-> Undefined]
             ELSE [thrown |-> NoError,
                   value |-> IF Len(mergedObj) = 1 THEN avgRates[1][2] ELSE Obj(avgRates)]

\* the .then of avg(), run on the value of fetch() with the instance as it is
\* then: [thrown, value]
avgThen(this, rates, decimalPlaces) ==
    IF ~_isHistoryRequest(this) THEN [thrown |-> NoError, value |-> rates]
    ELSE LET objs == ObjectValues(rates)
             mergedObj == mergeInto(<<>>, Concat([i \in DOMAIN objs |-> ObjectProps(objs[i])]))
             avgRates == [i \in DOMAIN mergedObj |->
                            LET avgRate == DividedBy(reduceSum(mergedObj[i][2]), Len(mergedObj[i][2]))
                            IN  <<mergedObj[i][1],
                                  IF decimalPlaces = Null THEN avgRate
                                  ELSE toFixed(avgRate, ToInt(decimalPlaces))>>]
         IN  IF ObjectKeysThrows(rates) \/ \E i \in DOMAIN objs : ObjectKeysThrows(objs[i])
             THEN [thrown |-> TypeError("Cannot convert undefined or null to object"),
                   value |-> Undefined]
             ELSE [thrown |-> NoError,
                   value |-> IF Len(mergedObj) = 1 THEN avgRates[1][2] ELSE Obj(avgRates)]

\* how the promise avg() returned settles: [thrown, value]
avgSettle(this, answer, decimalPlaces) ==
    LET rates == fetchSettle(answer)
    IN  IF rates.thrown # NoError THEN rates
        ELSE avgThen(this, rates.value, decimalPlaces)

\* what convert() throws on its arguments
convertArgumentThrown(amount, toCurrency) ==
    IF amount.t # "number"
    THEN TypeError("The 'amount' parameter has to be a number")
    ELSE IF IsArray(toCurrency)
    THEN TypeError("Cannot convert to multiple currencies at the same time")
    ELSE NoError

\* convert(), up to the transport call, on an instance of its own: [thrown, url]
convertCall(amount, fromCurrency, toCurrency, date) ==
    LET dated == IF date = LATEST THEN latest(NewInstance) ELSE at(NewInstance, date)
        based == IF dated.thrown # NoError THEN dated ELSE base(dated.this, fromCurrency)
        chosen == IF based.thrown # NoError THEN based ELSE symbols(based.this, toCurrency)
    IN  IF convertArgumentThrown(amount, toCurrency) # NoError
        THEN [thrown |-> convertArgumentThrown(amount, toCurrency), url |-> Undefined]
        ELSE IF chosen.thrown # NoError
        THEN [thrown |-> chosen.thrown, url |-> Undefined]
        ELSE fetchCall(chosen.this)

\* the .then of convert() without the product
convertThen_rateOnly(rate, amount) == rate

\* the .then of convert(): rate * amount
convertThen(rate, amount) ==
    IF rate.t = "number" /\ rate # NaN /\ amount # NaN THEN Times(rate, amount)
    ELSE IF rate = Null /\ amount # NaN THEN Times(Num(0), amount)
    ELSE NaN

\* how the promise convert() returned settles: [thrown, value]
convertSettle(answer, amount) ==
    LET rate == fetchSettle(answer)
    IN  IF rate.thrown # NoError THEN rate
        ELSE [thrown |-> NoError, value |-> convertThen(rate.value, amount)]

-----------------------------------------------------------------------------
(* The arguments the caller passes and the answers the transport gives *)

ApiUrlInputs ==
    {<<"x">>, <<"x", "/">>, <<"x", "/", "/">>}

D1998 == Str(<<"1","9","9","8","-","1","2","-","3","1">>)
D1998Noon == DateObj(1998, 12, 31, 12)
D1999 == Str(<<"1","9","9","9","-","0","1","-","0","1">>)
D2018 == Str(<<"2","0","1","8","-","0","6","-","2","1">>)
Unparsable == Str(<<"f","o","o">>)

DateInputs == {D1998, D1998Noon, D1999, D2018, Unparsable}

CurrencyInputs ==
    {Str(<<"u","s","d">>), Str(<<"x","y","z">>), Num(5)}

SymbolsInputs ==
    {Str(<<"u","s","d">>), Str(<<"x","y","z">>), Num(5),
     Arr(<<Str(<<"g","b","p">>), Str(<<"U","S","D">>), Str(<<"G","B","P">>)>>),
     Arr(<<Str(<<"E","U","R">>), Str(<<"x","y","z">>)>>),
     Arr(<<Str(<<"E","U","R">>), Null>>),
     Arr(<<>>)}

\* the arguments of the runs that go on to the transport
RequestUrls == {API_BASE_URL \o <<"/">>}
RequestDates == {D1998, D1999, D2018}
RequestCurrencies == {Str(<<"u","s","d">>)}

\* the arguments of convert()
ConvertAmounts == {Num(3), Str(<<"3">>)}
ConvertTargets ==
    {Str(<<"E","U","R">>), Arr(<<Str(<<"E","U","R">>), Str(<<"G","B","P">>)>>)}
ConvertDates == {LATEST, D2018, D1998}

DecimalPlacesInputs == {Null, Num(0), Num(1), Num(-1), Frac(3, 2), Str(<<"2">>)}

USD110 == <<"USD", Frac(110, 100)>>
USD140 == <<"USD", Frac(140, 100)>>
GBP084 == <<"GBP", Frac(84, 100)>>
EUR080 == <<"EUR", Frac(80, 100)>>
EUR090 == <<"EUR", Frac(90, 100)>>

\* bodies { rates: ... } of a latest or single date request
RatesBodies ==
    {Obj(<<<<"rates", Obj(<<USD110>>)>>, <<"base", Str(<<"E","U","R">>)>>>>),
     Obj(<<<<"rates", Obj(<<USD110, GBP084>>)>>, <<"base", Str(<<"E","U","R">>)>>>>)}

\* bodies { rates: { date: ... } } of a history request
HistoryBodies ==
    {Obj(<<<<"rates", Obj(<<<<"2018-06-21", Obj(<<USD110>>)>>>>)>>>>),
     Obj(<<<<"rates", Obj(<<<<"2018-06-21", Obj(<<USD110, GBP084>>)>>>>)>>>>),
     Obj(<<<<"rates", Obj(<<<<"2018-06-21", Obj(<<EUR080>>)>>,
                            <<"2018-06-22", Obj(<<EUR090>>)>>>>)>>>>),
     Obj(<<<<"rates", Obj(<<<<"2018-06-21", Obj(<<USD110, GBP084>>)>>,
                            <<"2018-06-22", Obj(<<USD140>>)>>>>)>>>>)}

\* a history body whose first date has no rates
NullEntryBody ==
    Obj(<<<<"rates", Obj(<<<<"2018-06-21", Null>>,
                           <<"2018-06-22", Obj(<<USD110>>)>>>>)>>>>)

Answers ==
    {Rejected("network timeout"),
     Malformed(200), Malformed(500),
     Response(404, Obj(<<<<"rates", Obj(<<USD110>>)>>>>)),
     Response(200, Obj(<<<<"error", Str(<<"x">>)>>>>)),
     Response(200, NullEntryBody)}
    \cup {Response(200, b) : b \in RatesBodies \cup HistoryBodies}

-----------------------------------------------------------------------------
(* The state machine: one instance, its caller and the transport *)

\* the instance as the variables hold it
This ==
    [_api_base_url |-> _api_base_url, _base |-> _base, _symbols |-> _symbols,
     _from |-> _from, _to |-> _to]

\* the instance itself, as a return value, and a promise not yet settled
Self == [t |-> "ExchangeRates"]
Promise == [t |-> "Promise"]
NoChain == [op |-> "none", decimalPlaces |-> Null, history |-> FALSE, amount |-> Null]
NoAnswer == [kind |-> "none", message |-> "", status |-> 0, json |-> FALSE, data |-> Undefined]

\* the record of a call: what was called, what it threw or returned, the url
\* it gave the transport, the chain of a fetch() or avg() (its decimalPlaces
\* and whether the request was a history request), and for a settled promise
\* the answer of the transport
Outcome(op, thrown, value, sent, chain, answer) ==
    [op |-> op, thrown |-> thrown, value |-> value, sent |-> sent,
     chain |-> chain, answer |-> answer]

Init ==
    /\ _api_base_url = NewInstance._api_base_url
    /\ _base = NewInstance._base
    /\ _symbols = NewInstance._symbols
    /\ _from = NewInstance._from
    /\ _to = NewInstance._to
    /\ last = Outcome("new", NoError, Self, Undefined, NoChain, NoAnswer)
    /\ pending = <<>>

\* a configuration call that ended as r = [thrown, this]
Configured(op, r) ==
    /\ _api_base_url' = r.this._api_base_url
    /\ _base' = r.this._base
    /\ _symbols' = r.this._symbols
    /\ _from' = r.this._from
    /\ _to' = r.this._to
    /\ last' = Outcome(op, r.thrown, (IF r.thrown = NoError THEN Self ELSE Undefined),
                       Undefined, NoChain, NoAnswer)
    /\ UNCHANGED pending

SetApiBaseUrl(u) == Configured("setApiBaseUrl", setApiBaseUrl(This, u))
At(date) == Configured("at", at(This, date))
Latest == Configured("latest", latest(This))
From(date) == Configured("from", from(This, date))
To(date) == Configured("to", to(This, date))
Base(currency) == Configured("base", base(This, currency))
Symbols(currencies) == Configured("symbols", symbols(This, currencies))

\* variant: a read of url that consumes the end of the range
Url_consumesRange ==
    /\ last' = Outcome("url", url(This).thrown, url(This).value, Undefined, NoChain, NoAnswer)
    /\ _to' = Null
    /\ UNCHANGED <<_api_base_url, _base, _symbols, _from, pending>>

\* reading the url property
Url ==
    /\ last' = Outcome("url", url(This).thrown, url(This).value, Undefined, NoChain, NoAnswer)
    /\ UNCHANGED <<config, pending>>

\* a call r = [thrown, url] of fetch(), avg() or convert(): it throws, or it
\* hands the url to the transport and returns the promise of the chain
Called(op, r, decimalPlaces, amount) ==
    LET chain == [op |-> op, decimalPlaces |-> decimalPlaces,
                  history |-> (op # "convert" /\ _isHistoryRequest(This)),
                  amount |-> amount]
    IN  /\ r.thrown = NoError => Len(pending) < MaxPending
        /\ last' = Outcome(op, r.thrown, (IF r.thrown = NoError THEN Promise ELSE Undefined),
                           r.url, chain, NoAnswer)
        /\ pending' = IF r.thrown = NoError THEN Append(pending, chain) ELSE pending
        /\ UNCHANGED config

Fetch == Called("fetch", fetchCall(This), Null, Null)
Avg(decimalPlaces) == Called("avg", avgCall(This, decimalPlaces), decimalPlaces, Null)
Convert(amount, fromCurrency, toCurrency, date) ==
    Called("convert", convertCall(amount, fromCurrency, toCurrency, date), Null, amount)

\* the transport answers the i-th waiting chain, which runs to its end
Settle(i, answer) ==
    /\ i \in DOMAIN pending
    /\ LET chain == pending[i]
           r == CASE chain.op = "avg" -> avgSettle(This, answer, chain.decimalPlaces)
                  [] chain.op = "convert" -> convertSettle(answer, chain.amount)
                  [] OTHER -> fetchSettle(answer)
       IN  last' = Outcome("settled", r.thrown, r.value, Undefined, chain, answer)
    /\ pending' = [j \in 1..(Len(pending) - 1) |-> IF j < i THEN pending[j] ELSE pending[j + 1]]
    /\ UNCHANGED config

\* fetch() and avg() when they throw before the transport is called
FetchThrows == fetchCall(This).thrown # NoError /\ Fetch
AvgThrows(decimalPlaces) ==
    avgCall(This, decimalPlaces).thrown # NoError /\ Avg(decimalPlaces)

\* The request builder: every configuration call on every argument, the url
\* property, and the calls of fetch() and avg() that validation refuses.
NextBuilder ==
    \/ \E u \in ApiUrlInputs : SetApiBaseUrl(u)
    \/ \E date \in DateInputs : At(date)
    \/ Latest
    \/ \E date \in DateInputs : From(date)
    \/ \E date \in DateInputs : To(date)
    \/ \E currency \in CurrencyInputs : Base(currency)
    \/ \E currencies \in SymbolsInputs : Symbols(currencies)
    \/ Url
    \/ FetchThrows
    \/ \E decimalPlaces \in DecimalPlacesInputs : AvgThrows(decimalPlaces)

SpecBuilder == Init /\ [][NextBuilder]_vars

\* The whole client with the transport: the configuration calls on the
\* arguments of RequestDates, RequestCurrencies and RequestUrls, every call of
\* fetch(), avg() and convert(), and every answer of the transport.
Next ==
    \/ \E u \in RequestUrls : SetApiBaseUrl(u)
    \/ \E date \in RequestDates : At(date)
    \/ Latest
    \/ \E date \in RequestDates : From(date)
    \/ \E date \in RequestDates : To(date)
    \/ \E currency \in RequestCurrencies : Base(currency)
    \/ \E currencies \in RequestCurrencies : Symbols(currencies)
    \/ Url
    \/ Fetch
    \/ \E decimalPlaces \in DecimalPlacesInputs : Avg(decimalPlaces)
    \/ \E amount \in ConvertAmounts, fromCurrency \in RequestCurrencies,
          toCurrency \in ConvertTargets, date \in ConvertDates :
            Convert(amount, fromCurrency, toCurrency, date)
    \/ \E i \in 1..MaxPending, answer \in Answers : Settle(i, answer)

Spec == Init /\ [][Next]_vars

-----------------------------------------------------------------------------
(* What the arguments of the model mean, written out for the properties *)

\* the arguments that denote a calendar date
CalendarDates == {D1998, D1998Noon, D1999, D2018}

\* the calendar year of a date argument
YearOf(v) == IF v \in {D1998, D1998Noon} THEN 1998 ELSE IF v = D1999 THEN 1999 ELSE 2018

\* the instant of a date argument, in hours since the first hour of 1998-12-31
InstantOf(v) ==
    CASE v = D1998 -> 0 [] v = D1998Noon -> 12 [] v = D1999 -> 24 [] v = D2018 -> 170664

\* a date argument as YYYY-MM-DD
IsoText(v) ==
    CASE v \in {D1998, D1998Noon} -> "1998-12-31"
      [] v = D1999 -> "1999-01-01"
      [] v = D2018 -> "2018-06-21"

\* the last call read the url or called fetch() or avg() with a valid argument,
\* so its outcome is that of validating and building the present configuration
Requested ==
    /\ last.op \in {"url", "fetch", "avg"}
    /\ last.op = "avg" => last.chain.decimalPlaces \in {Null, Num(0), Num(1)}

\* the last call failed with the error and produced no url and no result
FailedWith(error) ==
    last.thrown = error /\ last.value = Undefined /\ last.sent = Undefined

-----------------------------------------------------------------------------
(* C1 *)

\* C1: whenever `to` is set while `from` is 'latest', reading url, fetch() and
\* avg() fail with the InvalidRangeRequest error, and no url is built, nothing
\* is handed to the transport and nothing is returned.
C1_RangeFromLatestFails ==
    (Requested /\ _to # Null /\ _from = LATEST) => FailedWith(InvalidRangeRequest)

C1_Witness ==
    /\ last.op = "avg" /\ last.chain.decimalPlaces = Null
    /\ _to = D2018 /\ _from = LATEST
    /\ last.thrown = InvalidRangeRequest

-----------------------------------------------------------------------------
(* C2 *)

\* C2: with `from` a date d1 of 1999 or later and `to` a date d2 (no base, no
\* symbols): if d1 is not after d2 the url is <base url>/history?start_at=<d1>
\* &end_at=<d2>, both as YYYY-MM-DD; if d1 is after d2 validation fails with
\* InvalidDateOrder and no url is built.
C2_RangeUrlOrDateOrder ==
    (/\ Requested
     /\ _from \in CalendarDates /\ _to \in CalendarDates /\ YearOf(_from) >= 1999
     /\ _base = Null /\ _symbols = Null)
    => IF InstantOf(_from) <= InstantOf(_to)
       THEN /\ last.thrown = NoError
            /\ LET built == IF last.op = "url" THEN last.value ELSE last.sent
               IN  /\ built.t = "string"
                   /\ Text(built.s) = Text(_api_base_url) \o "/history?start_at="
                                        \o IsoText(_from) \o "&end_at=" \o IsoText(_to)
       ELSE FailedWith(InvalidDateOrder)

C2_Witness ==
    /\ last.op = "url" /\ last.thrown = NoError
    /\ _from = D1999 /\ _to = D2018 /\ _base = Null /\ _symbols = Null

-----------------------------------------------------------------------------
(* C3 *)

\* C3 as stated: whenever `from` is a date of a year before 1999, with or
\* without `to`, validation fails with DateOutOfRange.
C3_AsStated ==
    (Requested /\ _from \in CalendarDates /\ YearOf(_from) < 1999)
    => FailedWith(DateOutOfRange)

\* C3, amended: whenever `from` is a date of a year before 1999, validation
\* fails: with InvalidDateOrder when `to` is set to a date that `from` is
\* after, and with DateOutOfRange otherwise; a `from` date of 1999 or later
\* never fails with DateOutOfRange.
C3_DateOutOfRange ==
    /\ (Requested /\ _from \in CalendarDates /\ YearOf(_from) < 1999)
       => IF _to \in CalendarDates /\ InstantOf(_from) > InstantOf(_to)
          THEN FailedWith(InvalidDateOrder)
          ELSE FailedWith(DateOutOfRange)
    /\ (Requested /\ _from \in CalendarDates /\ YearOf(_from) >= 1999)
       => last.thrown # DateOutOfRange

C3_Witness ==
    /\ last.op = "url" /\ _from = D1998 /\ _to = Null /\ last.thrown = DateOutOfRange

-----------------------------------------------------------------------------
(* The parts of a built url, read back from its characters *)

\* the url the last call built: the value of the url property, or what
\* fetch() and avg() handed to the transport
Built == IF last.op = "url" THEN last.value.s ELSE last.sent.s

\* the last call validated the present configuration and built its url
BuiltUrl == Requested /\ last.thrown = NoError

\* the first index of character c in cs, Len(cs) + 1 when there is none
IndexOf(cs, c) ==
    IF \E i \in DOMAIN cs : cs[i] = c
    THEN CHOOSE i \in DOMAIN cs : cs[i] = c /\ \A j \in 1..(i - 1) : cs[j] # c
    ELSE Len(cs) + 1

RECURSIVE Split(_, _)
\* the pieces of cs between the characters c
Split(cs, c) ==
    LET i == IndexOf(cs, c)
    IN  IF i > Len(cs) THEN <<cs>>
        ELSE <<SubSeq(cs, 1, i - 1)>> \o Split(SubSeq(cs, i + 1, Len(cs)), c)

\* what follows the base url in the url u
AfterBaseUrl(u) == SubSeq(u, Len(_api_base_url) + 1, Len(u))
\* its path, from the '/' to the '?' or the end
PathOf(u) == SubSeq(AfterBaseUrl(u), 1, IndexOf(AfterBaseUrl(u), "?") - 1)
\* its query string, from the '?' to the end
QueryOf(u) == SubSeq(AfterBaseUrl(u), IndexOf(AfterBaseUrl(u), "?"), Len(AfterBaseUrl(u)))
\* the parameters of a query string, as <<key, value>> texts in their order
ParamsOf(query) ==
    IF Len(query) <= 1 THEN <<>>
    ELSE LET pairs == Split(Tail(query), "&")
         IN  [i \in DOMAIN pairs |->
                <<Text(SubSeq(pairs[i], 1, IndexOf(pairs[i], "=") - 1)),
                  Text(SubSeq(pairs[i], IndexOf(pairs[i], "=") + 1, Len(pairs[i])))>>]
KeysOf(params) == [i \in DOMAIN params |-> params[i][1]]

\* the characters are four digits, '-', two digits, '-', two digits
LooksLikeDay(cs) ==
    /\ Len(cs) = 10
    /\ \A i \in 1..10 : IF i \in {5, 8} THEN cs[i] = "-" ELSE cs[i] \in Range(Digits)

-----------------------------------------------------------------------------
(* C4 *)

\* C4 as stated: the path of every url built is chosen by the configuration
\* alone: /history exactly when `to` is set, otherwise /latest exactly when
\* `from` is 'latest', otherwise / and `from` as YYYY-MM-DD; a path /latest
\* comes with no start_at and no end_at.
C4_AsStated ==
    BuiltUrl =>
        LET path == PathOf(Built)
            keys == KeysOf(ParamsOf(QueryOf(Built)))
        IN  /\ SubSeq(Built, 1, Len(_api_base_url)) = _api_base_url
            /\ IF _to # Null THEN Text(path) = "/history"
               ELSE IF _from = LATEST
               THEN Text(path) = "/latest" /\ "start_at" \notin Range(keys)
                                           /\ "end_at" \notin Range(keys)
               ELSE /\ Len(path) = 11 /\ path[1] = "/" /\ LooksLikeDay(Tail(path))
                    /\ _from \in CalendarDates => Text(Tail(path)) = IsoText(_from)

\* the same, of the configurations whose `from` is 'latest' or denotes a date
C4_OfDates == (_from = LATEST \/ _from \in CalendarDates) => C4_AsStated

-----------------------------------------------------------------------------
(* C5 *)

RECURSIVE CommaText(_)
\* the codes of es, joined by commas
CommaText(es) ==
    IF es = <<>> THEN ""
    ELSE IF Len(es) = 1 THEN Text(es[1].s)
    ELSE Text(es[1].s) \o "," \o CommaText(Tail(es))

\* C5: the query string of every url built holds start_at and end_at exactly
\* when `to` is set, base exactly when a base is set, symbols exactly when
\* symbols are set, always in the order start_at, end_at, base, symbols; the
\* symbols are joined by literal commas; the query string is empty when there
\* is no parameter and begins with '?' otherwise.
C5_QueryString ==
    BuiltUrl =>
        LET query == QueryOf(Built)
            params == ParamsOf(query)
            wanted == (IF _to # Null THEN <<"start_at", "end_at">> ELSE <<>>)
                      \o (IF _base # Null THEN <<"base">> ELSE <<>>)
                      \o (IF _symbols # Null THEN <<"symbols">> ELSE <<>>)
        IN  /\ KeysOf(params) = wanted
            /\ query = <<>> <=> wanted = <<>>
            /\ query # <<>> => query[1] = "?" /\ Len(query) > 1
            /\ \A i \in DOMAIN params :
                 /\ params[i][1] = "base" => params[i][2] = Text(_base.s)
                 /\ params[i][1] = "symbols" => params[i][2] = CommaText(_symbols.es)

C5_Witness ==
    /\ last.op = "url" /\ last.thrown = NoError
    /\ _to = D2018 /\ _from = D1999 /\ _base # Null
    /\ _symbols # Null /\ Len(_symbols.es) = 3
    /\ Text(QueryOf(Built)) = "?start_at=1999-01-01&end_at=2018-06-21&base=USD&symbols=GBP,USD,GBP"

C5_WitnessNone ==
    /\ last.op = "url" /\ last.thrown = NoError
    /\ _to = Null /\ _base = Null /\ _symbols = Null /\ QueryOf(Built) = <<>>

-----------------------------------------------------------------------------
(* C6 *)

\* the arguments of base() and symbols() that hold a code outside the catalog,
\* and those that hold a value that is no string
UnknownCodeArgs == {Str(<<"x","y","z">>), Arr(<<Str(<<"E","U","R">>), Str(<<"x","y","z">>)>>)}
NonTextualArgs == {Num(5), Arr(<<Str(<<"E","U","R">>), Null>>)}

\* a stored currency: a string of upper-case letters that the catalog holds
IsCatalogCode(v) ==
    /\ v.t = "string"
    /\ \A i \in DOMAIN v.s : v.s[i] \in Range(UpperCase)
    /\ v.s \in currenciesList

StoredCurrenciesValid ==
    /\ _base = Null \/ IsCatalogCode(_base)
    /\ _symbols = Null
       \/ (_symbols.t = "array" /\ \A i \in DOMAIN _symbols.es : IsCatalogCode(_symbols.es[i]))

\* the call just made failed as base() and symbols() must on the argument c
RefusedCurrency(c) ==
    /\ c \in NonTextualArgs => last'.thrown.name = "TypeError"
    /\ c \in UnknownCodeArgs =>
          last'.thrown = ExchangeRatesError("XYZ is not a valid currency")
    /\ c \in NonTextualArgs \cup UnknownCodeArgs =>
          /\ last'.value = Undefined
          /\ _base' = _base /\ _symbols' = _symbols

\* C6: the stored base is always absent or an upper-case code of the catalog
\* and every stored symbol is an upper-case code of the catalog; base() and
\* symbols() fail with UnknownCurrency on a code outside the catalog and with
\* a TypeError on a value that is no string, and leave base and symbols as
\* they were.
C6_StoredCurrencies ==
    /\ []StoredCurrenciesValid
    /\ [][/\ last'.op = "base" => \A c \in CurrencyInputs : Base(c) => RefusedCurrency(c)
          /\ last'.op = "symbols" => \A c \in SymbolsInputs : Symbols(c) => RefusedCurrency(c)]_vars

C6_Witness ==
    /\ last.op = "base" /\ last.thrown = ExchangeRatesError("XYZ is not a valid currency")
    /\ _base = Str(<<"U","S","D">>)
    /\ _symbols # Null /\ Len(_symbols.es) = 3

-----------------------------------------------------------------------------
(* C7 *)

\* C7 as stated: the stored symbols are absent or a non-empty collection that
\* holds no currency code twice.
C7_AsStated ==
    _symbols = Null
    \/ /\ Len(_symbols.es) > 0
       /\ \A i, j \in DOMAIN _symbols.es : _symbols.es[i] = _symbols.es[j] => i = j

\* the part of C7 that the code keeps: symbols() stores one code for each
\* element of its argument, in the order of the argument
C7_OrderKept ==
    [][\A c \in SymbolsInputs :
          (last'.op = "symbols" /\ last'.thrown = NoError /\ Symbols(c)) =>
              LET given == IF c.t = "array" THEN c.es ELSE <<c>>
              IN  /\ Len(_symbols'.es) = Len(given)
                  /\ \A i \in DOMAIN given :
                        _symbols'.es[i].s = toUpperCase(given[i].s)]_vars

-----------------------------------------------------------------------------
(* C8 *)

\* C8 as stated: at(), from() and to() fail with the InvalidDate error on an
\* argument that is no date and leave `from` and `to` as they were; on a date
\* they store that date.
C8_AsStated ==
    [][last'.op \in {"at", "from", "to"} => \A d \in DateInputs :
          /\ (At(d) \/ From(d) \/ To(d)) /\ d \notin CalendarDates =>
                /\ last'.thrown.name = "ExchangeRatesError"
                /\ _from' = _from /\ _to' = _to
          /\ (At(d) \/ From(d)) /\ d \in CalendarDates =>
                _from' \in CalendarDates /\ InstantOf(_from') = InstantOf(d)
          /\ To(d) /\ d \in CalendarDates =>
                _to' \in CalendarDates /\ InstantOf(_to') = InstantOf(d)]_vars

\* the part of C8 that the code keeps: a date argument is stored
C8_DatesStored ==
    [][last'.op \in {"at", "from", "to"} => \A d \in CalendarDates :
          /\ (At(d) \/ From(d)) => _from' \in CalendarDates /\ InstantOf(_from') = InstantOf(d)
          /\ To(d) => _to' \in CalendarDates /\ InstantOf(_to') = InstantOf(d)]_vars

-----------------------------------------------------------------------------
(* C9, C10 *)

\* the promise of a fetch() has just settled on a status 200 answer whose body
\* has a `rates` mapping
FetchedRates ==
    /\ last.op = "settled" /\ last.chain.op = "fetch"
    /\ last.answer.kind = "response" /\ last.answer.status = 200 /\ last.answer.json
    /\ GetProp(last.answer.data, "rates").t = "object"

\* the `rates` mapping of the answer
AnswerRates == GetProp(last.answer.data, "rates")

\* C9: a fetch() of a request that is no range request, answered with status
\* 200 and a `rates` mapping, resolves to the one rate when the mapping has
\* exactly one key and to the mapping itself when it has two or more.
C9_CollapseSingleRate ==
    (FetchedRates /\ ~last.chain.history) =>
        /\ last.thrown = NoError
        /\ Len(AnswerRates.ps) = 1 => last.value = AnswerRates.ps[1][2]
        /\ Len(AnswerRates.ps) >= 2 => last.value = AnswerRates

C9_Witness ==
    /\ FetchedRates /\ ~last.chain.history
    /\ AnswerRates = Obj(<<USD110>>)
    /\ last.value = Frac(110, 100)

\* C10 as stated: a fetch() of a range request, answered with status 200 and
\* a mapping from dates to rates, resolves to that mapping whatever the number
\* of its dates.
C10_AsStated ==
    (/\ FetchedRates /\ last.chain.history
     /\ \A i \in DOMAIN AnswerRates.ps : AnswerRates.ps[i][2].t = "object")
    => last.thrown = NoError /\ last.value = AnswerRates

\* the part of C10 that the code keeps: a mapping of two or more dates
C10_TwoDatesOrMore ==
    (/\ FetchedRates /\ last.chain.history
     /\ \A i \in DOMAIN AnswerRates.ps : AnswerRates.ps[i][2].t = "object"
     /\ Len(AnswerRates.ps) >= 2)
    => last.thrown = NoError /\ last.value = AnswerRates

-----------------------------------------------------------------------------
(* C11 *)

\* the promise of an avg() has just settled on a status 200 answer whose body
\* has a `rates` mapping
AveragedRates ==
    /\ last.op = "settled" /\ last.chain.op = "avg"
    /\ last.answer.kind = "response" /\ last.answer.status = 200 /\ last.answer.json
    /\ GetProp(last.answer.data, "rates").t = "object"

\* the `rates` mapping of the answer maps two or more dates to their rates
TwoDatesOrMore ==
    /\ Len(AnswerRates.ps) >= 2
    /\ \A i \in DOMAIN AnswerRates.ps : AnswerRates.ps[i][2].t = "object"

\* the currency codes of the answer, and the rates of one code in date order
CodesOf(rates) ==
    {rates.ps[i][2].ps[j][1] : <<i, j>> \in
        {ij \in (DOMAIN rates.ps) \X (1..3) : ij[2] \in DOMAIN rates.ps[ij[1]][2].ps}}

RECURSIVE RatesOf(_, _)
RatesOf(ps, code) ==
    IF ps = <<>> THEN <<>>
    ELSE (IF HasProp(ps[1][2], code) THEN <<GetProp(ps[1][2], code)>> ELSE <<>>)
         \o RatesOf(Tail(ps), code)

RECURSIVE Total(_)
Total(rs) == IF Len(rs) = 1 THEN rs[1] ELSE Plus(Total(SubSeq(rs, 1, Len(rs) - 1)), rs[Len(rs)])

\* the mean of a code over the dates that list it
MeanOf(rates, code) ==
    LET rs == RatesOf(rates.ps, code) IN DividedBy(Total(rs), Len(rs))

\* the mean as avg(decimalPlaces) gives it: rounded when decimalPlaces is given
GivenMean(rates, code, decimalPlaces) ==
    IF decimalPlaces = Null THEN MeanOf(rates, code)
    ELSE toFixed(MeanOf(rates, code), ToInt(decimalPlaces))

\* C11: an avg() of a range request, answered with status 200 and a mapping of
\* two or more dates, resolves for every currency code of the answer to the
\* sum of its rates divided by the number of dates that list it (rounded when
\* decimalPlaces is given): to that one number when the whole answer has one
\* code, and otherwise to a mapping from exactly the codes of the answer.
C11_MeanOverOccurrences ==
    (AveragedRates /\ last.chain.history /\ TwoDatesOrMore) =>
        LET codes == CodesOf(AnswerRates)
            given(c) == GivenMean(AnswerRates, c, last.chain.decimalPlaces)
        IN  /\ last.thrown = NoError
            /\ Cardinality(codes) = 1 => \A c \in codes : last.value = given(c)
            /\ Cardinality(codes) >= 2 =>
                  /\ last.value.t = "object"
                  /\ Range(ObjectKeys(last.value)) = codes
                  /\ Len(ObjectKeys(last.value)) = Cardinality(codes)
                  /\ \A c \in codes : GetProp(last.value, c) = given(c)

\* USD is listed on both dates and GBP on one of them
C11_Witness ==
    /\ AveragedRates /\ last.chain.history /\ last.chain.decimalPlaces = Null
    /\ AnswerRates = Obj(<<<<"2018-06-21", Obj(<<USD110, GBP084>>)>>,
                           <<"2018-06-22", Obj(<<USD140>>)>>>>)
    /\ GetProp(last.value, "USD") = DividedBy(Plus(Frac(110, 100), Frac(140, 100)), 2)
    /\ GetProp(last.value, "GBP") = Frac(84, 100)

-----------------------------------------------------------------------------
(* C12 *)

\* the promise of an avg() has just settled, of a request that was no range
\* request when it was made and is none now
AveragedNoRange ==
    /\ last.op = "settled" /\ last.chain.op = "avg"
    /\ ~last.chain.history /\ _to = Null

-----------------------------------------------------------------------------
(* C13 *)

\* the decimalPlaces arguments that are given and are no integer of 0 or more
BadDecimalPlaces == {Num(-1), Frac(3, 2), Str(<<"2">>)}

\* the two errors of the decimalPlaces argument
InvalidArgument ==
    {ExchangeRatesError("The decimal places parameter has to be an integer"),
     ExchangeRatesError("Decimal places cannot be negative")}

\* C13: a call avg(decimalPlaces) fails with an InvalidArgument error exactly
\* when decimalPlaces is given and is not an integer of 0 or more; it then
\* fails whatever the configuration, before the configuration is validated,
\* and hands nothing to the transport; with decimalPlaces left out it never
\* fails with that error.
C13_InvalidArgument ==
    last.op = "avg" =>
        /\ last.chain.decimalPlaces \in BadDecimalPlaces =>
              /\ last.thrown \in InvalidArgument
              /\ last.value = Undefined /\ last.sent = Undefined
        /\ last.chain.decimalPlaces \notin BadDecimalPlaces =>
              last.thrown \notin InvalidArgument
        /\ (last.chain.decimalPlaces \in {Null, Num(0)} /\ _validate(This) = NoError) =>
              last.thrown = NoError /\ last.sent # Undefined

\* avg(-1) of a configuration that validation refuses fails on its argument
C13_Witness ==
    /\ last.op = "avg" /\ last.chain.decimalPlaces = Num(-1)
    /\ _validate(This) = InvalidRangeRequest
    /\ last.thrown = ExchangeRatesError("Decimal places cannot be negative")
    /\ pending = <<>>

-----------------------------------------------------------------------------
(* C14 *)

\* the answer of two dates with EUR at 0.80 and at 0.90
EurAnswer ==
    Obj(<<<<"2018-06-21", Obj(<<EUR080>>)>>, <<"2018-06-22", Obj(<<EUR090>>)>>>>)

\* the number an avg() resolved for a code: the value itself, or its entry
ResolvedFor(code) ==
    IF last.value.t = "number" THEN last.value ELSE GetProp(last.value, code)

\* x is q / 10^n for the whole q >= 0 that makes q / 10^n nearest to the
\* number mean >= 0, the larger q when two are equally near (means of the
\* answers here are below 2)
NearestDecimal(x, mean, n) ==
    \E q \in 0..(2 * Pow10(n)) :
        /\ x = Frac(q, Pow10(n))
        /\ LET scaled == BMulSmall(mean.n, Pow10(n))
               whole == BShl(BNat(q), mean.k)
               twice == IF BCmp(whole, scaled) >= 0
                        THEN BShl(BSub(whole, scaled), 1)
                        ELSE BShl(BSub(scaled, whole), 1)
               unit == BShl(<<1>>, mean.k)
           IN  \/ BCmp(twice, unit) < 0
               \/ BCmp(twice, unit) = 0 /\ BCmp(whole, scaled) > 0

\* C14 as stated: over the two dates with EUR at 0.80 and 0.90, avg() resolves
\* to 0.85 and avg(1) to 0.9.
C14_AsStated ==
    (AveragedRates /\ last.chain.history /\ AnswerRates = EurAnswer) =>
        /\ last.chain.decimalPlaces = Null => last.value = Frac(85, 100)
        /\ last.chain.decimalPlaces = Num(1) => last.value = Frac(9, 10)

\* C14: an avg() of a range request keeps every mean as the double that the
\* sum and the division give, and an avg(n) resolves for every code the
\* multiple of 10^-n nearest to that double, the larger of two equally near:
\* over the two dates with EUR at 0.80 and 0.90, avg() resolves to a double
\* above 0.85, the mean of the doubles 0.8 and 0.9, and avg(1) to 0.9.
C14_RoundedMean ==
    (AveragedRates /\ last.chain.history /\ TwoDatesOrMore) =>
        /\ \A c \in CodesOf(AnswerRates) :
              IF last.chain.decimalPlaces = Null
              THEN ResolvedFor(c) = MeanOf(AnswerRates, c)
              ELSE NearestDecimal(ResolvedFor(c), MeanOf(AnswerRates, c),
                                  ToInt(last.chain.decimalPlaces))
        /\ (AnswerRates = EurAnswer /\ last.chain.decimalPlaces = Null) =>
              /\ last.value = DividedBy(Plus(Frac(80, 100), Frac(90, 100)), 2)
              /\ Greater(last.value, Frac(85, 100))
        /\ (AnswerRates = EurAnswer /\ last.chain.decimalPlaces = Num(1)) =>
              last.value = Frac(9, 10)

\* avg(1) of EUR at 0.80 and 0.90: the mean is a double above 0.85
C14_Witness ==
    /\ AveragedRates /\ last.chain.history /\ last.chain.decimalPlaces = Num(1)
    /\ AnswerRates = EurAnswer
    /\ Greater(MeanOf(AnswerRates, "EUR"), Frac(85, 100))
    /\ last.value = Frac(9, 10)

\* avg(1) of USD at 1.1 and 1.4: the mean 1.25 is as near to 1.2 as to 1.3
C14_WitnessTie ==
    /\ AveragedRates /\ last.chain.history /\ last.chain.decimalPlaces = Num(1)
    /\ CodesOf(AnswerRates) = {"USD", "GBP"} /\ TwoDatesOrMore
    /\ MeanOf(AnswerRates, "USD") = Frac(125, 100)
    /\ GetProp(last.value, "USD") = Frac(13, 10)

-----------------------------------------------------------------------------
(* C15 *)

\* the error of a status that is not 200, and the error that a failure with
\* the message surfaces as
ApiError(status) ==
    ExchangeRatesError("API returned a bad response (HTTP " \o ToString(status) \o ")")
FetchFailed(message) ==
    ExchangeRatesError("Couldn't fetch the exchange rate, " \o message)

\* the promise of a fetch() or an avg() has just settled on a response whose
\* status is not 200
BadStatus ==
    /\ last.op = "settled" /\ last.chain.op \in {"fetch", "avg"}
    /\ last.answer.kind = "response" /\ last.answer.status # 200

-----------------------------------------------------------------------------
(* C16 *)

\* the promise of a fetch(), avg() or convert() has just failed on an answer
\* that is no response of another status than 200: the transport rejected,
\* or the body of a 200 is no JSON or has no usable `rates`
TransportFailure ==
    /\ last.op = "settled" /\ last.thrown # NoError
    /\ last.answer.kind = "response" => last.answer.status = 200

\* the messages of the errors under those failures
CauseMessages ==
    {"network timeout", "Unexpected token < in JSON at position 0",
     "Cannot convert undefined or null to object"}

\* C16 as stated: every such failure of fetch(), avg() and convert() surfaces
\* as one FetchFailed error with the message of its cause, and nothing is
\* resolved with it (the configuration being of the same kind, range or not,
\* as when the call was made).
C16_AsStated ==
    (TransportFailure /\ last.chain.history = _isHistoryRequest(This)) =>
        /\ last.thrown \in {FetchFailed(m) : m \in CauseMessages}
        /\ last.answer.kind = "rejected" => last.thrown = FetchFailed(last.answer.message)
        /\ last.value = Undefined

\* the part of C16 that the code keeps: the failures of fetch() and convert(),
\* and those of an avg() that come out of its fetch()
C16_WrappedByFetch ==
    (TransportFailure /\ (last.chain.op = "avg" => fetchSettle(last.answer).thrown # NoError)) =>
        /\ last.thrown \in {FetchFailed(m) : m \in CauseMessages}
        /\ last.answer.kind = "rejected" => last.thrown = FetchFailed(last.answer.message)
        /\ last.value = Undefined

-----------------------------------------------------------------------------
(* C17 *)

EndsInSlash(cs) == cs # <<>> /\ cs[Len(cs)] = "/"

\* C17 as stated: the base url that setApiBaseUrl has just stored ends in no
\* '/', and for every u, setApiBaseUrl(u) and setApiBaseUrl(u + '/') give the
\* configuration the same url.
C17_AsStated ==
    last.op = "setApiBaseUrl" =>
        /\ ~EndsInSlash(_api_base_url)
        /\ \A u \in ApiUrlInputs :
              url(setApiBaseUrl(This, u).this) = url(setApiBaseUrl(This, u \o <<"/">>).this)

\* the part of C17 that the code keeps: one '/' at the end of u is removed, so
\* a u that ends in no '/' and u + '/' give the same url
C17_OneSlash ==
    \A u \in ApiUrlInputs :
        ~EndsInSlash(u) =>
            /\ setApiBaseUrl(This, u \o <<"/">>).this._api_base_url = u
            /\ url(setApiBaseUrl(This, u).this) = url(setApiBaseUrl(This, u \o <<"/">>).this)

-----------------------------------------------------------------------------
(* C18 *)

\* the url of convert(amount, 'usd', 'EUR', date)
ConvertUrl(date) ==
    Text(API_BASE_URL) \o (IF date = LATEST THEN "/latest" ELSE "/" \o IsoText(date))
    \o "?base=USD&symbols=EUR"

\* what a call of convert() with the arguments has to leave behind
ConvertOutcome(amount, toCurrency, date) ==
    IF amount.t # "number" \/ IsArray(toCurrency)
    THEN /\ last'.thrown.name = "TypeError"
         /\ last'.value = Undefined /\ last'.sent = Undefined
         /\ pending' = pending
    ELSE (date = LATEST \/ YearOf(date) >= MinYear) =>
         /\ last'.thrown = NoError
         /\ Text(last'.sent.s) = ConvertUrl(date)
         /\ Len(pending') = Len(pending) + 1

\* the promise of a convert() has just settled on a status 200 answer whose
\* `rates` mapping holds one rate
ConvertedRate ==
    /\ last.op = "settled" /\ last.chain.op = "convert"
    /\ last.answer.kind = "response" /\ last.answer.status = 200 /\ last.answer.json
    /\ GetProp(last.answer.data, "rates").t = "object"
    /\ Len(AnswerRates.ps) = 1 /\ AnswerRates.ps[1][2].t = "number"

\* C18: convert(amount, fromCurrency, toCurrency, date) with a number as amount
\* and one toCurrency leaves the instance as it is and hands the transport the
\* url of a new instance, /latest for 'latest' and /<date> for a date, with
\* base=fromCurrency and symbols=toCurrency, whatever the instance holds; its
\* promise resolves to the product of amount and the one rate of the answer;
\* with an amount that is no number or a list as toCurrency it throws a
\* TypeError and hands nothing to the transport.
C18_Convert ==
    /\ [](ConvertedRate =>
            /\ last.thrown = NoError
            /\ last.value = Times(last.chain.amount, AnswerRates.ps[1][2]))
    /\ [][last'.op = "convert" =>
            /\ UNCHANGED config
            /\ \A amount \in ConvertAmounts, fromCurrency \in RequestCurrencies,
                  toCurrency \in ConvertTargets, date \in ConvertDates :
                    Convert(amount, fromCurrency, toCurrency, date)
                        => ConvertOutcome(amount, toCurrency, date)]_vars

\* 3 converted at the rate 1.1, by an instance that is configured otherwise
C18_Witness ==
    /\ ConvertedRate /\ last.chain.amount = Num(3)
    /\ AnswerRates = Obj(<<USD110>>)
    /\ last.value = Times(Num(3), Frac(110, 100))
    /\ Greater(last.value, Frac(33, 10))
    /\ _to # Null /\ _base = Null

-----------------------------------------------------------------------------
(* C19 *)

\* C19 as stated: the collapse of the answer's `rates` mapping, which is what
\* fetch() resolves, collapses to itself, for the mapping of a range request
\* as for any other.
C19_AsStated ==
    (/\ FetchedRates
     /\ last.chain.history =>
           \A i \in DOMAIN AnswerRates.ps : AnswerRates.ps[i][2].t = "object")
    => /\ last.value = collapse(AnswerRates)
       /\ collapse(last.value) = last.value

\* the part of C19 that the code keeps: a mapping from codes to numbers
C19_CodesToNumbers ==
    (/\ FetchedRates
     /\ \A i \in DOMAIN AnswerRates.ps : AnswerRates.ps[i][2].t = "number")
    => /\ last.value = collapse(AnswerRates)
       /\ collapse(last.value) = last.value

-----------------------------------------------------------------------------
(* C20 *)

\* the configuration is one that validation refuses, in terms of its dates
RefusedConfiguration ==
    \/ _to # Null /\ _from = LATEST
    \/ _to # Null /\ _from # LATEST /\ InstantOf(_from) > InstantOf(_to)
    \/ _from # LATEST /\ YearOf(_from) < MinYear

\* the step hands nothing, or one url, to the transport
NoTransportCall == pending' = pending /\ last'.sent = Undefined /\ last'.thrown # NoError
OneTransportCall ==
    /\ Len(pending') = Len(pending) + 1
    /\ SubSeq(pending', 1, Len(pending)) = pending
    /\ last'.sent.t = "string"

\* C20: a call of fetch(), avg() or convert() invokes the transport not at all
\* when it fails on the configuration (a range from 'latest', dates out of
\* order, a date before 1999) or on an argument (decimalPlaces, amount,
\* toCurrency), and once otherwise; no other step invokes it: not the
\* settling of a promise, whatever the answer was and whatever the range.
C20_TransportCalls ==
    [][/\ last'.op = "fetch" =>
            IF RefusedConfiguration THEN NoTransportCall ELSE OneTransportCall
       /\ last'.op = "avg" =>
            IF RefusedConfiguration \/ last'.chain.decimalPlaces \in BadDecimalPlaces
            THEN NoTransportCall ELSE OneTransportCall
       /\ last'.op = "convert" =>
            \A amount \in ConvertAmounts, fromCurrency \in RequestCurrencies,
               toCurrency \in ConvertTargets, date \in ConvertDates :
                 Convert(amount, fromCurrency, toCurrency, date) =>
                    IF \/ amount.t # "number" \/ IsArray(toCurrency)
                       \/ date # LATEST /\ YearOf(date) < MinYear
                    THEN NoTransportCall ELSE OneTransportCall
       /\ last'.op = "settled" =>
            Len(pending') = Len(pending) - 1
       /\ last'.op \notin {"fetch", "avg", "convert", "settled"} =>
            pending' = pending]_vars

\* the promise of an avg() over a range has failed on a transport failure, and
\* no call is waiting
C20_Witness ==
    /\ last.op = "settled" /\ last.chain.op = "avg" /\ last.chain.history
    /\ last.answer.kind = "rejected" /\ last.thrown # NoError
    /\ pending = <<>>

------------------------------------------------------------------------------
(* C21 *)

\* the calls that configure the instance
ConfigurationCalls == {"setApiBaseUrl", "at", "latest", "from", "to", "base", "symbols"}

\* the step leaves every configuration field but the named one as it was
OnlyChanges(field) ==
    /\ field # "_api_base_url" => _api_base_url' = _api_base_url
    /\ field # "_from" => _from' = _from
    /\ field # "_to" => _to' = _to
    /\ field # "_base" => _base' = _base
    /\ field # "_symbols" => _symbols' = _symbols

\* C21: a configuration call that does not throw returns the instance, and
\* every configuration call changes its own field only: setApiBaseUrl the
\* base url; latest(), at() and from() the `from` field, which then holds
\* 'latest' or the date of this call whatever it held before, at() and from()
\* having the same effect on every instance; to() the `to` field; base() the
\* base; symbols() the symbols. No configuration call starts a transport call.
C21_OwnFieldOnly ==
    [][/\ last'.op \in ConfigurationCalls =>
            /\ last'.thrown = NoError => last'.value = Self
            /\ pending' = pending
       /\ last'.op = "setApiBaseUrl" => OnlyChanges("_api_base_url")
       /\ last'.op = "latest" => OnlyChanges("_from") /\ _from' = LATEST
       /\ last'.op \in {"at", "from"} =>
            /\ OnlyChanges("_from")
            /\ \E date \in DateInputs :
                 /\ At(date) \/ From(date)
                 /\ last'.thrown = NoError => _from' = parseDate(date).value
            /\ \A date \in DateInputs :
                 at(This, date) = from(This, date)
       /\ last'.op = "to" =>
            /\ OnlyChanges("_to")
            /\ \E date \in DateInputs :
                 To(date) /\ (last'.thrown = NoError => _to' = parseDate(date).value)
       /\ last'.op = "base" => OnlyChanges("_base")
       /\ last'.op = "symbols" => OnlyChanges("_symbols")]_vars

\* latest() was called on an instance whose end date, base and symbols were
\* set, and they are still set
C21_Witness ==
    /\ last.op = "latest" /\ last.value = Self /\ _from = LATEST
    /\ _to # Null /\ _base # Null /\ _symbols # Null

------------------------------------------------------------------------------
(* C22 *)

\* the last call was a fetch(), or an avg() whose decimalPlaces argument was
\* accepted: a call that validated the configuration and built its url
Validating ==
    \/ last.op = "fetch"
    \/ last.op = "avg" /\ last.chain.decimalPlaces \notin BadDecimalPlaces

\* C22: a read of url, a call of fetch() or avg() and the settling of their
\* promises leave apiBaseUrl, from, to, base and symbols as they were; so a
\* read of url that follows a read of url gives the same url or the same
\* error, and a read of url that follows a fetch() or avg() gives the url
\* that call gave the transport, or the error it threw.
C22_ReadsLeaveConfiguration ==
    [][/\ last'.op \in {"url", "fetch", "avg", "settled"} => config' = config
       /\ (last.op = "url" /\ last'.op = "url") =>
            last'.thrown = last.thrown /\ last'.value = last.value
       /\ (Validating /\ last'.op = "url") =>
            /\ last'.thrown = last.thrown
            /\ last.thrown = NoError => last'.value = last.sent]_vars

\* url was read on a range request with a base and symbols: it gave a url,
\* and the whole configuration is still in place
C22_Witness ==
    /\ last.op = "url" /\ last.thrown = NoError /\ IsString(last.value)
    /\ _from # LATEST /\ _to # Null /\ _base # Null /\ _symbols # Null

------------------------------------------------------------------------------
(* C23 *)

\* the `rates` mapping of the answer maps exactly one date to its rates, of
\* one currency or more
OneDate ==
    /\ Len(AnswerRates.ps) = 1
    /\ AnswerRates.ps[1][2].t = "object"
    /\ Len(AnswerRates.ps[1][2].ps) >= 1

\* C23 as stated: an avg() of a valid range request, answered with status 200
\* and a mapping of exactly one date, resolves for every currency code of that
\* date to its rate (rounded when decimalPlaces is given): to that one number
\* when the date has one code, and otherwise to a mapping from exactly the
\* codes of the date, never to an empty mapping.
C23_AsStated ==
    (AveragedRates /\ last.chain.history /\ _isHistoryRequest(This) /\ OneDate) =>
        LET codes == CodesOf(AnswerRates)
            given(c) == GivenMean(AnswerRates, c, last.chain.decimalPlaces)
        IN  /\ last.thrown = NoError
            /\ last.value # Obj(<<>>)
            /\ Cardinality(codes) = 1 => \A c \in codes : last.value = given(c)
            /\ Cardinality(codes) >= 2 =>
                  /\ last.value.t = "object"
                  /\ Range(ObjectKeys(last.value)) = codes
                  /\ \A c \in codes : GetProp(last.value, c) = given(c)

\* what the code does instead: the averaging receives the rates of the one
\* date in place of the mapping of dates, finds numbers where it expects the
\* rates of a date, and resolves to the empty mapping
C23_EmptyMapping ==
    (AveragedRates /\ last.chain.history /\ _isHistoryRequest(This) /\ OneDate) =>
        last.thrown = NoError /\ last.value = Obj(<<>>)

------------------------------------------------------------------------------
(* C24 *)

\* the promise of an avg() has just settled
AvgSettled == last.op = "settled" /\ last.chain.op = "avg"

\* C24 as stated: the promise of an avg() settles by the shape of the request
\* that was sent, whatever was configured while it waited: an avg() of a
\* request that was no range request settles exactly as fetch() settles on
\* the same answer, and an avg() of a range request answered with two dates
\* or more resolves to the means, never to the mapping of dates itself.
C24_AsStated ==
    AvgSettled =>
        /\ ~last.chain.history =>
              /\ last.thrown = fetchSettle(last.answer).thrown
              /\ last.value = fetchSettle(last.answer).value
        /\ (last.chain.history /\ AveragedRates /\ TwoDatesOrMore) =>
              last.thrown = NoError /\ last.value # AnswerRates

\* what the code does instead: the promise settles by the shape the instance
\* has when the answer arrives
C24_ShapeAtSettling ==
    AvgSettled =>
        IF _isHistoryRequest(This)
        THEN /\ last.thrown = avgThen(This, fetchSettle(last.answer).value,
                                      last.chain.decimalPlaces).thrown
                  \/ fetchSettle(last.answer).thrown # NoError
             /\ (AveragedRates /\ TwoDatesOrMore) => last.value # AnswerRates
        ELSE /\ last.thrown = fetchSettle(last.answer).thrown
             /\ last.value = fetchSettle(last.answer).value

\* an avg() of a latest request whose instance was given an end date while it
\* waited: the rates of the answer were averaged away
C24_Raced ==
    /\ AvgSettled /\ ~last.chain.history /\ _isHistoryRequest(This)
    /\ AveragedRates /\ AnswerRates = Obj(<<USD110, GBP084>>)
    /\ last.value = Obj(<<>>)

====
